---- MODULE Spec2Model ----
(***************************************************************************)
(* A model of spatia-geocoder (src/src-python/spatia-geocoder/main.py):    *)
(* the batch runner geocode_addresses, the command line entry point run    *)
(* and the POST /geocode handler served on worker threads.                 *)
(*                                                                         *)
(* Python values are tagged tuples, so that None, a float and a str are    *)
(* different values, and so are JSON null, number and string.  A dict and  *)
(* a JSON object are sets of <<key, value>> pairs: a key can be absent.    *)
(***************************************************************************)
EXTENDS Integers, Sequences, FiniteSets, TLC

\* ---------------------------------------------------------------- bounds
\* Longest list of addresses of one batch.
MaxLen == 2
\* Worker threads of the HTTP server that run the sync handler.
NumThreads == 2
\* Work of all requests being served at the same time (see Cost).
MaxInFlight == 2

\* ---------------------------------------------------------------- values
PyNone == <<"None">>
PyFloat(x) == <<"float", x>>
PyStr(s) == <<"str", s>>
PyLocation(lat, lon) == <<"Location", lat, lon>>

JNull == <<"null">>
JNumber(x) == <<"number", x>>
JString(s) == <<"string", s>>

Addresses == {"A", "B"}

AddrSeqs(n) == UNION {[1..k -> Addresses] : k \in 0..n}

\* What geocoder.geocode can hand back for one address.
Locations == {PyLocation(48, 2)}

GeocoderTimedOut ==
    [name |-> "GeocoderTimedOut",
     mro  |-> {"GeocoderTimedOut", "GeocoderServiceError", "GeopyError", "Exception", "BaseException"},
     msg  |-> "Service timed out"]

Exceptions == {GeocoderTimedOut}

Outcomes ==
    {<<"return", l>> : l \in Locations \cup {PyNone}} \cup {<<"raise", e>> : e \in Exceptions}

\* ---------------------------------------------------------------- environment
DebugVar == "SPATIA_GEOCODER_DEBUG"

\* os.environ as a set of <<name, value>> pairs; a value is a sequence of characters.
Environs == {{}, {<<DebugVar, <<" ", "O", "n", " ">>>>}}

EnvironGet(e, name, default) ==
    IF \E p \in e : p[1] = name THEN (CHOOSE p \in e : p[1] = name)[2] ELSE default

IsSpace(c) == c \in {" ", "\t", "\n"}

RECURSIVE LStrip(_)
LStrip(s) == IF s # <<>> /\ IsSpace(Head(s)) THEN LStrip(Tail(s)) ELSE s

RECURSIVE RStrip(_)
RStrip(s) ==
    IF s # <<>> /\ IsSpace(s[Len(s)]) THEN RStrip(SubSeq(s, 1, Len(s) - 1)) ELSE s

Strip(s) == RStrip(LStrip(s))

LowerChar(c) ==
    CASE c = "T" -> "t" [] c = "R" -> "r" [] c = "U" -> "u" [] c = "E" -> "e"
      [] c = "Y" -> "y" [] c = "S" -> "s" [] c = "O" -> "o" [] c = "N" -> "n"
      [] OTHER -> c

Lower(s) == [i \in 1..Len(s) |-> LowerChar(s[i])]

TruthyValues ==
    {<<"1">>, <<"t", "r", "u", "e">>, <<"y", "e", "s">>, <<"o", "n">>}

geocoder_debug_enabled(e) ==
    LET value == Lower(Strip(EnvironGet(e, DebugVar, <<>>)))
    IN  value \in TruthyValues

\* ---------------------------------------------------------------- results
GeocodeResult(address, lat, lon, status, error) ==
    [address |-> PyStr(address), lat |-> lat, lon |-> lon, status |-> status, error |-> error]

\* f"{type(exc).__name__}: {exc}"
FormatExc(exc) == PyStr(<<exc.name, ": ", exc.msg>>)

\* The except branch without the error description.
ExceptBranchNoError(results, address, dbg, exc) ==
    Append(results,
           GeocodeResult(address, PyNone, PyNone,
                         IF dbg THEN PyStr("error") ELSE PyNone,
                         PyNone))

ExceptBranch(results, address, dbg, exc) ==
    Append(results,
           GeocodeResult(address, PyNone, PyNone,
                         IF dbg THEN PyStr("error") ELSE PyNone,
                         IF dbg THEN FormatExc(exc) ELSE PyNone))

\* The not-found branch continuing without a result.
NotFoundBranchSkip(results, address, dbg) == results

NotFoundBranch(results, address, dbg) ==
    Append(results,
           GeocodeResult(address, PyNone, PyNone,
                         IF dbg THEN PyStr("not_found") ELSE PyNone,
                         PyNone))

\* The success branch losing the longitude.
OkBranchNoLon(results, address, dbg, location) ==
    Append(results,
           GeocodeResult(address, PyFloat(location[2]), PyNone,
                         IF dbg THEN PyStr("ok") ELSE PyNone,
                         PyNone))

\* The success branch with latitude and longitude exchanged.
OkBranchSwapped(results, address, dbg, location) ==
    Append(results,
           GeocodeResult(address, PyFloat(location[3]), PyFloat(location[2]),
                         IF dbg THEN PyStr("ok") ELSE PyNone,
                         PyNone))

OkBranch(results, address, dbg, location) ==
    Append(results,
           GeocodeResult(address, PyFloat(location[2]), PyFloat(location[3]),
                         IF dbg THEN PyStr("ok") ELSE PyNone,
                         PyNone))

\* A handler that catches ValueError only.
CatchesValueError(exc) == "ValueError" \in exc.mro

\* except Exception: does the handler catch exc?
Catches(exc) == "Exception" \in exc.mro

\* A loop that tries the same address again after an error.
NextAddressRetry(i, outcome) == IF outcome[1] = "raise" THEN i ELSE i + 1

\* The for loop moves to the next address whatever the lookup did.
NextAddress(i, outcome) == i + 1

\* ---------------------------------------------------------------- serialization
\* model_dump(exclude_none=True): the keys whose value is None are left out.
model_dump_exclude_none(r) ==
    {p \in {<<"address", r.address>>, <<"lat", r.lat>>, <<"lon", r.lon>>,
             <<"status", r.status>>, <<"error", r.error>>} : p[2] # PyNone}

\* result.model_dump(): every declared field is a key, None values included.
model_dump(r) ==
    {<<"address", r.address>>, <<"lat", r.lat>>, <<"lon", r.lon>>,
     <<"status", r.status>>, <<"error", r.error>>}

ToJson(v) ==
    CASE v[1] = "None"  -> JNull
      [] v[1] = "float" -> JNumber(v[2])
      [] v[1] = "str"   -> JString(v[2])

\* json.dumps of a list of dicts: a JSON array of objects.
json_dumps(dicts) ==
    [i \in 1..Len(dicts) |-> {<<p[1], ToJson(p[2])>> : p \in dicts[i]}]

\* The response FastAPI builds from the handler's List[GeocodeResult].
SerializeResponse(results) ==
    json_dumps([i \in 1..Len(results) |-> model_dump(results[i])])

Keys(obj) == {p[1] : p \in obj}

Get(obj, k) == (CHOOSE p \in obj : p[1] = k)[2]

\* ---------------------------------------------------------------- state
Main == 0
Workers == 1..NumThreads
Procs == {Main} \cup Workers

DefaultPort == 7788

UsageMessage == "Provide at least one address, or use --serve"

VARIABLES
    environ,     \* os.environ
    argv,        \* the parsed command line: [serve, addresses]
    mainpc,      \* where run() is
    stdout,      \* the lines printed
    stderr,      \* the messages written by parser.error
    exitcode,    \* -1 while the process runs
    server,      \* <<>> or <<[host, port]>> once uvicorn listens
    pc,          \* per thread: where geocode / geocode_addresses is
    addresses,   \* per thread: the argument of geocode_addresses
    debug,       \* per thread: the local debug
    it,          \* per thread: position of the for loop
    results,     \* per thread: the local results
    response,    \* per thread: the HTTP response sent
    calls,       \* per thread: the addresses passed to geocoder.geocode so far
    outcomes     \* per thread: what geocoder.geocode did for each call

vars ==
    <<environ, argv, mainpc, stdout, stderr, exitcode, server, pc, addresses,
      debug, it, results, response, calls, outcomes>>

mainvars == <<argv, mainpc, stdout, stderr, exitcode, server>>

NoResponse == [status |-> 0, body |-> <<>>]

\* The command lines tried: without --serve every list of addresses up to MaxLen,
\* with --serve no positional address (run() does not read them then).
CommandLines ==
    [serve : {FALSE}, addresses : AddrSeqs(MaxLen)] \cup [serve : {TRUE}, addresses : AddrSeqs(0)]

Init ==
    /\ environ \in Environs
    /\ argv \in CommandLines
    /\ mainpc = "start"
    /\ stdout = <<>>
    /\ stderr = <<>>
    /\ exitcode = -1
    /\ server = <<>>
    /\ pc = [t \in Procs |-> "idle"]
    /\ addresses = [t \in Procs |-> <<>>]
    /\ debug = [t \in Procs |-> FALSE]
    /\ it = [t \in Procs |-> 1]
    /\ results = [t \in Procs |-> <<>>]
    /\ response = [t \in Procs |-> NoResponse]
    /\ calls = [t \in Procs |-> <<>>]
    /\ outcomes = [t \in Procs |-> <<>>]

\* results as one list of the module, shared by every thread.
BindResultsShared(res, t, new) == [u \in DOMAIN res |-> new]

\* Binding the local name results of thread t.
BindResults(res, t, new) == [res EXCEPT ![t] = new]

\* The debug flag read again from the environment for every result.
DebugOfReread(t) == geocoder_debug_enabled(environ)

\* The debug flag a result of thread t is built with.
DebugOf(t) == debug[t]

\* ---------------------------------------------------------------- geocode_addresses
Begin(t) ==
    /\ pc[t] = "begin"
    /\ debug' = [debug EXCEPT ![t] = geocoder_debug_enabled(environ)]
    /\ results' = BindResults(results, t, <<>>)
    /\ it' = [it EXCEPT ![t] = 1]
    /\ pc' = [pc EXCEPT ![t] = "loop"]
    /\ UNCHANGED <<environ, mainvars, addresses, response, calls, outcomes>>

Call(t) ==
    /\ pc[t] = "loop"
    /\ it[t] <= Len(addresses[t])
    /\ calls' = [calls EXCEPT ![t] = Append(@, addresses[t][it[t]])]
    /\ pc' = [pc EXCEPT ![t] = "lookup"]
    /\ UNCHANGED <<environ, mainvars, addresses, debug, it, results, response, outcomes>>

LookupReturn(t, outcome) ==
    /\ pc[t] = "lookup"
    /\ outcomes' = [outcomes EXCEPT ![t] = Append(@, outcome)]
    /\ LET address == addresses[t][it[t]]
       IN  IF outcome[1] = "raise" /\ ~Catches(outcome[2])
           THEN /\ pc' = [pc EXCEPT ![t] = "crashed"]
                /\ UNCHANGED <<results, it>>
           ELSE /\ results' =
                     BindResults(results, t,
                         IF outcome[1] = "raise"
                         THEN ExceptBranch(results[t], address, DebugOf(t), outcome[2])
                         ELSE IF outcome[2] = PyNone
                         THEN NotFoundBranch(results[t], address, DebugOf(t))
                         ELSE OkBranch(results[t], address, DebugOf(t), outcome[2]))
                /\ it' = [it EXCEPT ![t] = NextAddress(@, outcome)]
                /\ pc' = [pc EXCEPT ![t] = "loop"]
    /\ UNCHANGED <<environ, mainvars, addresses, debug, response, calls>>

Return(t) ==
    /\ pc[t] = "loop"
    /\ it[t] > Len(addresses[t])
    /\ pc' = [pc EXCEPT ![t] = "returned"]
    /\ UNCHANGED <<environ, mainvars, addresses, debug, it, results, response, calls, outcomes>>

\* ---------------------------------------------------------------- run
RunUsageError ==
    /\ mainpc = "start"
    /\ ~argv.serve
    /\ argv.addresses = <<>>
    /\ stderr' = Append(stderr, UsageMessage)
    /\ exitcode' = 2
    /\ mainpc' = "exited"
    /\ UNCHANGED <<environ, argv, stdout, server, pc, addresses, debug, it, results,
                   response, calls, outcomes>>

\* run() without the check for an empty list of addresses.
RunCliNoCheck ==
    /\ mainpc = "start"
    /\ ~argv.serve
    /\ addresses' = [addresses EXCEPT ![Main] = argv.addresses]
    /\ pc' = [pc EXCEPT ![Main] = "begin"]
    /\ mainpc' = "geocoding"
    /\ UNCHANGED <<environ, argv, stdout, stderr, exitcode, server, debug, it, results,
                   response, calls, outcomes>>

RunCli ==
    /\ mainpc = "start"
    /\ ~argv.serve
    /\ argv.addresses # <<>>
    /\ addresses' = [addresses EXCEPT ![Main] = argv.addresses]
    /\ pc' = [pc EXCEPT ![Main] = "begin"]
    /\ mainpc' = "geocoding"
    /\ UNCHANGED <<environ, argv, stdout, stderr, exitcode, server, debug, it, results,
                   response, calls, outcomes>>

RunPrint ==
    /\ mainpc = "geocoding"
    /\ pc[Main] = "returned"
    /\ stdout' = Append(stdout,
                        json_dumps([i \in 1..Len(results[Main]) |-> model_dump(results[Main][i])]))
    /\ exitcode' = 0
    /\ mainpc' = "exited"
    /\ UNCHANGED <<environ, argv, stderr, server, pc, addresses, debug, it, results,
                   response, calls, outcomes>>

RunServe ==
    /\ mainpc = "start"
    /\ argv.serve
    /\ server' = <<[host |-> "127.0.0.1", port |-> DefaultPort]>>
    /\ mainpc' = "serving"
    /\ UNCHANGED <<environ, argv, stdout, stderr, exitcode, pc, addresses, debug, it,
                   results, response, calls, outcomes>>

\* ---------------------------------------------------------------- POST /geocode
\* Bounding the server's load: the work of one request is one unit per address,
\* and at least one; Request admits a request while the total stays within MaxInFlight.
Cost(addrs) == IF addrs = <<>> THEN 1 ELSE Len(addrs)

RECURSIVE InFlight(_)
InFlight(ts) ==
    IF ts = {} THEN 0
    ELSE LET t == CHOOSE u \in ts : TRUE
         IN  (IF pc[t] = "idle" THEN 0 ELSE Cost(addresses[t])) + InFlight(ts \ {t})

\* A request whose body validates as GeocodeRequest reaches the handler.
Request(t, addrs) ==
    /\ mainpc = "serving"
    /\ pc[t] = "idle"
    /\ Cost(addrs) + InFlight(Workers) <= MaxInFlight
    /\ addresses' = [addresses EXCEPT ![t] = addrs]
    /\ pc' = [pc EXCEPT ![t] = "begin"]
    /\ UNCHANGED <<environ, mainvars, debug, it, results, response, calls, outcomes>>

Respond(t) ==
    /\ t \in Workers
    /\ pc[t] = "returned"
    /\ response' = [response EXCEPT ![t] = [status |-> 200, body |-> SerializeResponse(results[t])]]
    /\ pc' = [pc EXCEPT ![t] = "responded"]
    /\ UNCHANGED <<environ, mainvars, addresses, debug, it, results, calls, outcomes>>

\* The request is over: the handler's frame is gone and the thread is free again.
Close(t) ==
    /\ pc[t] = "responded"
    /\ pc' = [pc EXCEPT ![t] = "idle"]
    /\ addresses' = [addresses EXCEPT ![t] = <<>>]
    /\ debug' = [debug EXCEPT ![t] = FALSE]
    /\ it' = [it EXCEPT ![t] = 1]
    /\ results' = [results EXCEPT ![t] = <<>>]
    /\ response' = [response EXCEPT ![t] = NoResponse]
    /\ calls' = [calls EXCEPT ![t] = <<>>]
    /\ outcomes' = [outcomes EXCEPT ![t] = <<>>]
    /\ UNCHANGED <<environ, mainvars>>

\* ---------------------------------------------------------------- environment
\* SPATIA_GEOCODER_DEBUG is set, changed or removed while the process runs.
SetEnviron(e) ==
    /\ e # environ
    /\ mainpc # "exited"
    /\ environ' = e
    /\ UNCHANGED <<mainvars, pc, addresses, debug, it, results, response, calls, outcomes>>

Next ==
    \/ RunUsageError
    \/ RunCli
    \/ RunPrint
    \/ RunServe
    \/ \E t \in Procs : Begin(t)
    \/ \E t \in Procs : Call(t)
    \/ \E t \in Procs, o \in Outcomes : LookupReturn(t, o)
    \/ \E t \in Procs : Return(t)
    \/ \E t \in Workers, a \in AddrSeqs(MaxLen) : Request(t, a)
    \/ \E t \in Workers : Respond(t)
    \/ \E t \in Workers : Close(t)
    \/ \E e \in Environs : SetEnviron(e)

Spec == Init /\ [][Next]_vars

\* ---------------------------------------------------------------- properties
Finished(t) == pc[t] \in {"returned", "responded"}

InBatch(t) == pc[t] \in {"loop", "lookup", "returned", "responded"}

IsLocation(o) == o[1] = "return" /\ o[2] # PyNone
IsNone(o) == o[1] = "return" /\ o[2] = PyNone
IsRaise(o) == o[1] = "raise"

\* The results whose lookup outcome is on record.
Settled(t) ==
    1..(IF Len(results[t]) <= Len(outcomes[t]) THEN Len(results[t]) ELSE Len(outcomes[t]))

\* What the contract asks of the result r of one lookup that ended as o.
Mapped(r, o, dbg) ==
    /\ IsLocation(o) =>
          /\ r.lat = PyFloat(o[2][2])
          /\ r.lon = PyFloat(o[2][3])
          /\ dbg => r.status = PyStr("ok")
    /\ IsNone(o) => (dbg => r.status = PyStr("not_found"))
    /\ IsRaise(o) => (dbg => r.status = PyStr("error"))

\* Every JSON array the process has written: the lines of standard output and the
\* bodies of the responses, each with the debug flag of the batch behind it.
Emitted ==
    {[array |-> stdout[i], dbg |-> debug[Main]] : i \in 1..Len(stdout)}
    \cup {[array |-> response[t].body, dbg |-> debug[t]] :
            t \in {u \in Workers : pc[u] = "responded"}}

EmittedObjects(dbg) ==
    UNION {{e.array[i] : i \in 1..Len(e.array)} : e \in {x \in Emitted : x.dbg = dbg}}

AllKeys == {"address", "lat", "lon", "status", "error"}

\* C1: a finished batch has one result per input address, in input order, and
\* the address of the i-th result is the i-th input string.
C1_SameLengthSameAddresses ==
    \A t \in Procs :
        Finished(t) =>
            /\ Len(results[t]) = Len(addresses[t])
            /\ \A i \in 1..Len(addresses[t]) : results[t][i].address = PyStr(addresses[t][i])

\* A batch of two equal addresses has returned, one lookup raised, one found nothing.
C1_Witness ==
    \E t \in Procs :
        /\ pc[t] = "returned"
        /\ addresses[t] = <<"B", "B">>
        /\ IsRaise(outcomes[t][1])
        /\ IsNone(outcomes[t][2])

C3_DebugStatusAndError ==
    \A t \in Procs :
        (InBatch(t) /\ debug[t]) =>
            \A i \in 1..Len(results[t]) :
                /\ results[t][i].status \in {PyStr("ok"), PyStr("not_found"), PyStr("error")}
                /\ (results[t][i].error # PyNone) <=> (results[t][i].status = PyStr("error"))

\* A debug batch has a result of status error and one of another status.
C3_Witness ==
    \E t \in Procs :
        /\ Finished(t)
        /\ debug[t]
        /\ Len(results[t]) = 2
        /\ results[t][1].status = PyStr("error")
        /\ results[t][1].error # PyNone
        /\ results[t][2].status = PyStr("not_found")

\* C4: in every result and every emitted object lat and lon are both null or
\* both non-null, and non-null exactly when the lookup returned a location.
C4_LatLonTogether ==
    /\ \A t \in Procs : \A i \in 1..Len(results[t]) :
           (results[t][i].lat = PyNone) <=> (results[t][i].lon = PyNone)
    /\ \A t \in Procs : \A i \in Settled(t) :
           (results[t][i].lat # PyNone) <=> IsLocation(outcomes[t][i])
    /\ \A dbg \in BOOLEAN : \A obj \in EmittedObjects(dbg) :
           /\ {"lat", "lon"} \subseteq Keys(obj)
           /\ (Get(obj, "lat") = JNull) <=> (Get(obj, "lon") = JNull)

\* A batch holds a result with coordinates and a result without.
C4_Witness ==
    \E t \in Procs :
        /\ Len(results[t]) = 2
        /\ results[t][1].lat # PyNone
        /\ results[t][1].lon # PyNone
        /\ results[t][2].lat = PyNone

\* C5: a lookup that raises does not abort the batch: the thread does not
\* crash, the loop goes on to the next address, a finished batch has looked up
\* every address, and the results of the lookups that did not raise are what
\* their own outcome asks for.
C5_FailureDoesNotAbort ==
    \A t \in Procs :
        (\E i \in 1..Len(outcomes[t]) : IsRaise(outcomes[t][i])) =>
            /\ pc[t] # "crashed"
            /\ pc[t] = "loop" => it[t] = Len(outcomes[t]) + 1
            /\ Finished(t) =>
                  /\ calls[t] = addresses[t]
                  /\ Len(results[t]) = Len(addresses[t])
            /\ \A j \in Settled(t) :
                  ~IsRaise(outcomes[t][j]) =>
                      /\ Mapped(results[t][j], outcomes[t][j], debug[t])
                      /\ results[t][j].address = PyStr(addresses[t][j])

\* The lookup of the first address raised and the second address was resolved.
C5_Witness ==
    \E t \in Procs :
        /\ Finished(t)
        /\ Len(addresses[t]) = 2
        /\ IsRaise(outcomes[t][1])
        /\ IsLocation(outcomes[t][2])
        /\ results[t][2].lat = PyFloat(48)

\* C6: every result is what the outcome of its own lookup asks for: the
\* location's latitude and longitude and status ok, or status not_found, or
\* status error (the status in debug mode).
C6_OwnOutcomeOnly ==
    \A t \in Procs : \A i \in Settled(t) :
        Mapped(results[t][i], outcomes[t][i], debug[t])

\* A debug batch resolved its first address after which a lookup found nothing.
C6_Witness ==
    \E t \in Procs :
        /\ debug[t]
        /\ Len(results[t]) = 2
        /\ IsLocation(outcomes[t][1])
        /\ IsNone(outcomes[t][2])
        /\ results[t][1].lat = PyFloat(48)
        /\ results[t][1].lon = PyFloat(2)

\* C7: without --serve and without addresses run() ends in the usage error
\* (exit code not 0, the message on standard error), with no lookup, nothing
\* printed and no server; without --serve and with addresses it looks up
\* exactly these addresses, prints one JSON array and exits with 0.
C7_CommandLine ==
    /\ (~argv.serve /\ argv.addresses = <<>> /\ mainpc # "start") =>
          /\ mainpc = "exited"
          /\ exitcode # 0
          /\ stderr = <<UsageMessage>>
    /\ (~argv.serve /\ argv.addresses = <<>>) =>
          /\ stdout = <<>>
          /\ server = <<>>
          /\ \A t \in Procs : calls[t] = <<>> /\ pc[t] = "idle"
    /\ (~argv.serve /\ argv.addresses # <<>>) =>
          /\ server = <<>>
          /\ stderr = <<>>
          /\ addresses[Main] \in {<<>>, argv.addresses}
          /\ mainpc = "exited" =>
                /\ exitcode = 0
                /\ calls[Main] = argv.addresses
                /\ Len(stdout) = 1
                /\ Len(stdout[1]) = Len(argv.addresses)

\* run() has ended in the usage error.
C7_Witness ==
    /\ ~argv.serve
    /\ argv.addresses = <<>>
    /\ mainpc = "exited"
    /\ exitcode = 2

\* C8: a batch reads the debug flag when it begins, keeps it until it ends
\* whatever happens to the environment, and every result of the batch has a
\* status exactly when that flag is set.
C8_DebugFixedPerBatch ==
    [][\A t \in Procs :
          /\ (pc[t] = "begin" /\ pc'[t] # "begin") =>
                debug'[t] = geocoder_debug_enabled(environ)
          /\ (InBatch(t) /\ pc'[t] # "idle") => debug'[t] = debug[t]
          /\ pc'[t] \in {"loop", "lookup", "returned", "responded"} =>
                \A i \in 1..Len(results'[t]) :
                    (results'[t][i].status # PyNone) <=> debug'[t]
      ]_vars

\* A lookup is in flight, a result is recorded, and the environment no longer
\* says what the batch read.
C8_Witness ==
    \E t \in Procs :
        /\ pc[t] = "lookup"
        /\ Len(results[t]) = 1
        /\ debug[t] # geocoder_debug_enabled(environ)

\* C9: the lookups of a batch are the input addresses in input order, one per
\* position; a lookup starts only when the results of all earlier positions are
\* recorded; a finished batch of n addresses has made exactly n lookups.
C9_OneLookupPerAddressInOrder ==
    \A t \in Procs :
        /\ Len(calls[t]) <= Len(addresses[t])
        /\ calls[t] = SubSeq(addresses[t], 1, Len(calls[t]))
        /\ pc[t] = "lookup" => Len(calls[t]) = Len(results[t]) + 1
        /\ pc[t] = "loop" => Len(calls[t]) = Len(results[t])
        /\ Finished(t) => calls[t] = addresses[t]

\* A batch of two different addresses has finished after a lookup that raised.
C9_Witness ==
    \E t \in Procs :
        /\ Finished(t)
        /\ addresses[t] = <<"A", "B">>
        /\ IsRaise(outcomes[t][1])
        /\ calls[t] = <<"A", "B">>

\* C10: the response of a request has the results of its own addresses, in its
\* own order, each as the outcome of its own lookup asks, whatever the other
\* threads do; while it runs, its results are those of its own addresses.
C10_RequestsDoNotInterfere ==
    \A t \in Workers :
        /\ InBatch(t) =>
              /\ Len(results[t]) <= Len(addresses[t])
              /\ \A i \in 1..Len(results[t]) : results[t][i].address = PyStr(addresses[t][i])
        /\ pc[t] = "responded" =>
              /\ response[t].status = 200
              /\ Len(response[t].body) = Len(addresses[t])
              /\ Len(outcomes[t]) = Len(addresses[t])
              /\ \A i \in 1..Len(addresses[t]) :
                    /\ Get(response[t].body[i], "address") = JString(addresses[t][i])
                    /\ (Get(response[t].body[i], "lat") # JNull) <=> IsLocation(outcomes[t][i])

\* Two requests for different addresses have their lookups in flight at once.
C10_Witness ==
    /\ pc[1] = "lookup"
    /\ pc[2] = "lookup"
    /\ addresses[1] = <<"A">>
    /\ addresses[2] = <<"B">>
====
